---- MODULE Spec2Model ----
(***************************************************************************)
(* Model of the Chtholly tree of src/src/lib.rs: a vector of nodes         *)
(* (left, right, value) kept sorted by left, with split, merge (assign),   *)
(* add, nth and pow_sum.  Vector indices are 0-based as in the source; the *)
(* node at index i is runs[i + 1].                                         *)
(***************************************************************************)
EXTENDS Integers, Sequences, FiniteSets, TLC

VARIABLES
    runs,    \* ChthollyTree.0 : Vec<ChthollyNode>
    arr,     \* the plain array that receives the same edits index by index
    n,       \* size of the index domain the calls are drawn from
    built,   \* "from_slice" or "default": how the tree was constructed
    prev,    \* ChthollyTree.0 as it was before the last call
    last,    \* the last call: its name, its arguments and what it returned
    calls,   \* number of calls made on the tree since its construction
    split_called  \* whether split was among them

vars == <<runs, arr, n, built, prev, last, calls, split_called>>

\* Bounds of the model.
N == 3
MaxVal == 2
MaxPower == 2
MaxMod == 3
MaxCalls == 3

\* N bounds the index domain, MaxVal the values stored in nodes, MaxPower and
\* MaxMod the exponent and the modulus given to pow_sum, MaxCalls the number
\* of calls made on one tree.

Values == 0..MaxVal
Deltas == 1..MaxVal

\* Option<usize> and the outcome of a call that may panic.
None == [tag |-> "None", val |-> 0]
Panic == [tag |-> "Panic", val |-> 0]
Some(v) == [tag |-> "Some", val |-> v]

\* Option<usize> of split_inner inside the model: an index or NoIndex.
NoIndex == -1

Max(a, b) == IF a >= b THEN a ELSE b
Min(a, b) == IF a <= b THEN a ELSE b

Node(l, r, v) == [left |-> l, right |-> r, value |-> v]

contains(node, x) == node.left <= x /\ x <= node.right

\* Vec::insert and Vec::remove at a 0-based index.
VecInsert(s, index, e) ==
    [i \in 1..(Len(s) + 1) |->
        IF i <= index THEN s[i] ELSE IF i = index + 1 THEN e ELSE s[i - 1]]

VecRemove(s, index) ==
    [i \in 1..(Len(s) - 1) |-> IF i <= index THEN s[i] ELSE s[i + 1]]

from_slice(data) == [i \in 1..Len(data) |-> Node(i - 1, i - 1, data[i])]

\* slice::binary_search_by(|node| node.left.cmp(&key)) over s[lo..hi):
\* Ok(index) of a node whose left is key, or Err(insertion point).
RECURSIVE BSearch(_, _, _, _)
BSearch(s, key, lo, hi) ==
    IF lo >= hi THEN [ok |-> FALSE, idx |-> lo]
    ELSE LET mid == lo + ((hi - lo) \div 2)
         IN  IF s[mid + 1].left < key THEN BSearch(s, key, mid + 1, hi)
             ELSE IF s[mid + 1].left > key THEN BSearch(s, key, lo, mid)
             ELSE [ok |-> TRUE, idx |-> mid]

\* The match on the search result that split_inner, nth and pow_sum share:
\* the found index, else the one before the insertion point, else nothing.
FindIndex(s, key) ==
    LET b == BSearch(s, key, 0, Len(s))
    IN  IF b.ok THEN b.idx
        ELSE IF b.idx > 0 THEN b.idx - 1
        ELSE NoIndex

\* split_inner without the early return for a run that starts at middle.
split_inner_always_cuts(s, middle) ==
    LET index == FindIndex(s, middle)
    IN  IF index = NoIndex THEN [runs |-> s, ret |-> NoIndex]
        ELSE LET new == Node(middle, s[index + 1].right, s[index + 1].value)
                 ins == VecInsert(s, index + 1, new)
             IN  [runs |-> [ins EXCEPT ![index + 1].right = middle],
                  ret |-> index + 1]

\* split_inner that takes the first run when none starts at or before middle
\* (index.saturating_sub(1) in place of the index > 0 test).
split_inner_saturating(s, middle) ==
    LET found == FindIndex(s, middle)
        index == IF found = NoIndex /\ Len(s) > 0 THEN 0 ELSE found
    IN  IF index = NoIndex THEN [runs |-> s, ret |-> NoIndex]
        ELSE IF s[index + 1].left = middle THEN [runs |-> s, ret |-> index]
        ELSE LET new == Node(middle, s[index + 1].right, s[index + 1].value)
                 ins == VecInsert(s, index + 1, new)
             IN  [runs |-> [ins EXCEPT ![index + 1].right = middle],
                  ret |-> index + 1]

split_inner(s, middle) ==
    LET index == FindIndex(s, middle)
    IN  IF index = NoIndex THEN [runs |-> s, ret |-> NoIndex]
        ELSE IF s[index + 1].left = middle THEN [runs |-> s, ret |-> index]
        ELSE LET new == Node(middle, s[index + 1].right, s[index + 1].value)
                 ins == VecInsert(s, index + 1, new)
             IN  [runs |-> [ins EXCEPT ![index + 1].right = middle],
                  ret |-> index + 1]

\* sort_unstable_by_key(|node| node.left), as an insertion sort.
RECURSIVE SortedInsert(_, _)
SortedInsert(s, e) ==
    IF s = <<>> THEN <<e>>
    ELSE IF e.left < Head(s).left THEN <<e>> \o s
    ELSE <<Head(s)>> \o SortedInsert(Tail(s), e)

\* sort_inner that leaves the vector as it is.
sort_inner_skipped(s) == s

RECURSIVE sort_inner(_)
sort_inner(s) ==
    IF s = <<>> THEN <<>>
    ELSE SortedInsert(sort_inner(Tail(s)), Head(s))

\* while index + 1 < len && self.0[index + 1].left <= right { remove(index + 1) }
RECURSIVE RemoveCovered(_, _, _)
RemoveCovered(s, index, right) ==
    IF index + 1 < Len(s) /\ s[index + 2].left <= right
    THEN RemoveCovered(VecRemove(s, index + 1), index, right)
    ELSE s

merge(s, left, right, value) ==
    LET s1 == split_inner(s, right).runs
        sp == split_inner(s1, left)
        index == sp.ret
    IN  IF index # NoIndex
        THEN RemoveCovered([sp.runs EXCEPT ![index + 1].value = value,
                                           ![index + 1].right = right],
                           index, right)
        ELSE sort_inner(Append(sp.runs, Node(left, right, value)))

\* for index in start..len { if left > right { break }; value += value }
RECURSIVE AddLoop(_, _, _, _)
AddLoop(s, index, right, value) ==
    IF index >= Len(s) \/ s[index + 1].left > right THEN s
    ELSE AddLoop([s EXCEPT ![index + 1].value = @ + value],
                 index + 1, right, value)

\* add that also runs merge's removal loop behind its first run.
add_removing(s, left, right, value) ==
    LET s1 == split_inner(s, right).runs
        sp == split_inner(s1, left)
    IN  IF sp.ret = NoIndex THEN sp.runs
        ELSE RemoveCovered(AddLoop(sp.runs, sp.ret, right, value),
                           sp.ret, right)

add(s, left, right, value) ==
    LET s1 == split_inner(s, right).runs
        sp == split_inner(s1, left)
    IN  IF sp.ret = NoIndex THEN sp.runs
        ELSE AddLoop(sp.runs, sp.ret, right, value)

\* The usize width of the target.
UsizeBits == 64

RECURSIVE Pow(_, _)
Pow(b, e) == IF e = 0 THEN 1 ELSE b * Pow(b, e - 1)

RECURSIVE PowMod(_, _, _)
PowMod(b, e, m) == IF e = 0 THEN 1 % m ELSE (b * PowMod(b, e - 1, m)) % m

\* The loop of nth.  len = right - max(left, node.left) + 1 is a usize: when
\* right < max(..) the subtraction panics if the build checks overflow and
\* wraps otherwise (to 0 when the difference is -1, else to a value near
\* 2^UsizeBits, larger than any x).
RECURSIVE NthLoop(_, _, _, _, _)
NthLoop(s, left, x, index, checks) ==
    IF x = 0 THEN Some(s[index + 1].value)
    ELSE LET node == s[index + 1]
             len == node.right - Max(left, node.left) + 1
         IN  IF node.right < Max(left, node.left) /\ checks THEN Panic
             ELSE IF len < 0 \/ x < len THEN Some(node.value)
             ELSE IF index + 1 >= Len(s) THEN None
             ELSE NthLoop(s, left, x - len, index + 1, checks)

nth(s, left, x, checks) ==
    LET index == FindIndex(s, left)
    IN  IF index = NoIndex THEN None
        ELSE NthLoop(s, left, x, index, checks)

\* The sum update without its reduction modulo modulo.
WrappingStep_unreduced(sum, len, term, modulo) == sum + len * term

\* (sum + len * term) % modulo in wrapping usize arithmetic, for a sum and a
\* term below modulo and a len that may stand for 2^UsizeBits + len.
WrappingStep(sum, len, term, modulo) ==
    LET total == sum + len * term
    IN  IF total >= 0 THEN total % modulo
        ELSE (PowMod(2, UsizeBits, modulo) + (total % modulo)) % modulo

\* The loop of pow_sum; the overlap length right - left + 1 underflows as in
\* nth when the node ends before the overlap starts.
RECURSIVE PowSumLoop(_, _, _, _, _, _, _, _)
PowSumLoop(s, left, right, power, modulo, index, sum, checks) ==
    IF index >= Len(s) \/ s[index + 1].left > right THEN Some(sum)
    ELSE LET node == s[index + 1]
             l == Max(left, node.left)
             r == Min(right, node.right)
             len == r - l + 1
             term == Pow(node.value, power) % modulo
         IN  IF r < l /\ checks THEN Panic
             ELSE PowSumLoop(s, left, right, power, modulo, index + 1,
                             WrappingStep(sum, len, term, modulo), checks)

pow_sum(s, left, right, power, modulo, checks) ==
    LET index == FindIndex(s, left)
    IN  IF index = NoIndex THEN Some(0)
        ELSE PowSumLoop(s, left, right, power, modulo, index, 0, checks)

\* The same edits applied to the plain array, index by index.
ArrayAssign(a, left, right, value) ==
    [i \in 1..Len(a) |-> IF left <= i - 1 /\ i - 1 <= right THEN value ELSE a[i]]

ArrayAdd(a, left, right, value) ==
    [i \in 1..Len(a) |-> IF left <= i - 1 /\ i - 1 <= right THEN a[i] + value ELSE a[i]]

Call(op, a, b, c, d, ret) ==
    [op |-> op, a |-> a, b |-> b, c |-> c, d |-> d, ret |-> ret]

Init ==
    /\ \/ \E len \in 1..N : \E data \in [1..len -> Values] :
            /\ runs = from_slice(data)
            /\ arr = data
            /\ n = len
            /\ built = "from_slice"
       \/ /\ runs = <<>>
          /\ arr = <<>>
          /\ n = N
          /\ built = "default"
    /\ prev = runs
    /\ last = Call("new", 0, 0, 0, 0, None)
    /\ calls = 0
    /\ split_called = FALSE

Split(middle) ==
    LET sp == split_inner(runs, middle)
    IN  /\ calls < MaxCalls
        /\ runs' = sp.runs
        /\ prev' = runs
        /\ last' = Call("split", middle, 0, 0, 0,
                        IF sp.ret = NoIndex THEN None ELSE Some(sp.ret))
        /\ calls' = calls + 1
        /\ split_called' = TRUE
        /\ UNCHANGED <<arr, n, built>>

Merge(left, right, value) ==
    /\ calls < MaxCalls
    /\ runs' = merge(runs, left, right, value)
    /\ arr' = ArrayAssign(arr, left, right, value)
    /\ prev' = runs
    /\ last' = Call("merge", left, right, value, 0, None)
    /\ calls' = calls + 1
    /\ UNCHANGED <<n, built, split_called>>

\* Values stay within MaxVal, far below the usize overflow of value += value.
Add(left, right, value) ==
    LET after == add(runs, left, right, value)
        array == ArrayAdd(arr, left, right, value)
    IN  /\ calls < MaxCalls
        /\ \A i \in 1..Len(after) : after[i].value <= MaxVal
        /\ \A i \in 1..Len(array) : array[i] <= MaxVal
        /\ runs' = after
        /\ arr' = array
        /\ prev' = runs
        /\ last' = Call("add", left, right, value, 0, None)
        /\ calls' = calls + 1
        /\ UNCHANGED <<n, built, split_called>>

\* A read returns what the code computes under either setting of the build's
\* overflow checks (panic on usize overflow, or wrap).
Nth(left, x) ==
    /\ calls < MaxCalls
    /\ \E ret \in {nth(runs, left, x, checks) : checks \in BOOLEAN} :
        /\ last' = Call("nth", left, x, 0, 0, ret)
        /\ prev' = runs
        /\ calls' = calls + 1
        /\ UNCHANGED <<runs, arr, n, built, split_called>>

PowSum(left, right, power, modulo) ==
    /\ calls < MaxCalls
    /\ \E ret \in {pow_sum(runs, left, right, power, modulo, checks) :
                      checks \in BOOLEAN} :
        /\ last' = Call("pow_sum", left, right, power, modulo, ret)
        /\ prev' = runs
        /\ calls' = calls + 1
        /\ UNCHANGED <<runs, arr, n, built, split_called>>

Next ==
    \/ \E middle \in 0..(n - 1) : Split(middle)
    \/ \E left \in 0..(n - 1) : \E right \in left..(n - 1) : \E value \in Values :
          Merge(left, right, value)
    \/ \E left \in 0..(n - 1) : \E right \in left..(n - 1) : \E value \in Deltas :
          Add(left, right, value)
    \/ \E left \in 0..(n - 1) : \E x \in 0..(n - left) : Nth(left, x)
    \/ \E left \in 0..(n - 1) : \E right \in left..(n - 1) :
       \E power \in 0..MaxPower : \E modulo \in 1..MaxMod :
          PowSum(left, right, power, modulo)

Spec == Init /\ [][Next]_vars

(***************************************************************************)
(* Vocabulary of the properties.                                           *)
(***************************************************************************)
Dense == built = "from_slice"

\* The value read at index i: nth(i, 0).
ReadAt(s, i) == nth(s, i, 0, TRUE)

Range(node) == node.left..node.right

Covered(s) == UNION {Range(s[i]) : i \in 1..Len(s)}

Intersects(node, left, right) == Max(node.left, left) <= Min(node.right, right)

\* A node that holds indices on both sides of the boundary before left or of
\* the boundary after right.
Straddles(node, left, right) ==
    \/ node.left < left /\ left <= node.right
    \/ node.left <= right /\ right < node.right

RECURSIVE ArrayPowSum(_, _, _, _, _)
ArrayPowSum(a, left, right, power, modulo) ==
    IF left > right THEN 0
    ELSE ((Pow(a[left + 1], power) % modulo)
          + ArrayPowSum(a, left + 1, right, power, modulo)) % modulo

\* C1: on a from_slice tree edited by merge and add calls only, a query
\* nth(l, x) with l + x < n returns the element l + x of the plain array that
\* received the same edits.
NthMatchesArray ==
    (Dense /\ ~split_called /\ last.op = "nth" /\ last.a + last.b < n)
        => last.ret = Some(arr[last.a + last.b + 1])

\* C2: on a from_slice tree edited by merge and add calls only,
\* pow_sum(l, r, p, m) returns the sum over i in [l, r] of array[i]^p mod m,
\* reduced mod m.
PowSumMatchesArray ==
    (Dense /\ ~split_called /\ last.op = "pow_sum")
        => last.ret = Some(ArrayPowSum(arr, last.a, last.b, last.c, last.d))

\* C3: adjacent runs never overlap: runs[i].right < runs[i+1].left.
NonOverlap ==
    \A i \in 1..(Len(runs) - 1) : runs[i].right < runs[i + 1].left

\* C4: on a from_slice tree over n elements the union of the runs' ranges is
\* exactly {0, ..., n-1}.
CoveragePreserved == Dense => Covered(runs) = 0..(n - 1)

\* C5: the run sequence is strictly ascending by left, whether the tree was
\* built empty or by from_slice.
SortedByLeft ==
    \A i \in 1..(Len(runs) - 1) : runs[i].left < runs[i + 1].left

\* A merge that found no run at or before left, pushed its node behind the
\* existing ones and sorted.
SortedAfterPushWitness ==
    /\ last.op = "merge"
    /\ Len(prev) >= 1
    /\ split_inner(split_inner(prev, last.b).runs, last.a).ret = NoIndex
    /\ Len(runs) = Len(prev) + 1

\* C6: right after merge(l, r, v) on a from_slice tree exactly one run is
\* (l, r, v) and no other run's range intersects [l, r].
AssignCoalesces ==
    (Dense /\ last.op = "merge")
        => LET target == Node(last.a, last.b, last.c)
           IN  /\ Cardinality({i \in 1..Len(runs) : runs[i] = target}) = 1
               /\ \A i \in 1..Len(runs) :
                     runs[i] # target => ~Intersects(runs[i], last.a, last.b)

\* C7: merge(l, r, v) on a from_slice tree makes every index of [l, r] read v
\* and leaves the value read at every other index of [0, n) as it was.
AssignFrame ==
    (Dense /\ last.op = "merge")
        => \A i \in 0..(n - 1) :
              ReadAt(runs, i) = IF last.a <= i /\ i <= last.b
                                THEN Some(last.c)
                                ELSE ReadAt(prev, i)

\* C8: add(l, r, d) on a from_slice tree makes every index of [l, r] read its
\* previous value plus d, leaves every other index as it was, and leaves no
\* run straddling l or r.
AddFrame ==
    (Dense /\ last.op = "add")
        => /\ \A i \in 0..(n - 1) :
                 ReadAt(runs, i) = IF last.a <= i /\ i <= last.b
                                   THEN Some(ReadAt(prev, i).val + last.c)
                                   ELSE ReadAt(prev, i)
           /\ \A i \in 1..Len(runs) : ~Straddles(runs[i], last.a, last.b)

\* C9: split(middle) replaces a run [left, right] with left < middle <= right
\* by [left, middle-1] and [middle, right] of the same value, changes no other
\* run, and returns the run whose left is middle.
SplitResult ==
    last.op = "split"
        => \A i \in 1..Len(prev) :
              (prev[i].left < last.a /\ last.a <= prev[i].right)
                 => /\ runs = SubSeq(prev, 1, i - 1)
                              \o <<Node(prev[i].left, last.a - 1, prev[i].value),
                                   Node(last.a, prev[i].right, prev[i].value)>>
                              \o SubSeq(prev, i + 1, Len(prev))
                    /\ last.ret = Some(i)

\* C10: split(k) called a second time changes nothing and returns what the
\* first call returned, for every index k and in every state.
SplitIdempotent ==
    /\ \A k \in 0..N :
          LET once == split_inner(runs, k)
          IN  split_inner(once.runs, k) = once
    /\ last.op = "split"
          => split_inner(runs, last.a) =
                [runs |-> runs,
                 ret |-> IF last.ret = None THEN NoIndex ELSE last.ret.val]

\* A split that cut a run in two.
SplitCutWitness == last.op = "split" /\ Len(runs) = Len(prev) + 1

\* No run of s starts at or before index k.
NoRunReaches(s, k) == \A i \in 1..Len(s) : s[i].left > k

\* C11: when middle is smaller than the left of every run (any middle on an
\* empty tree), split(middle) returns None and leaves the runs unchanged.
SplitAbsence ==
    /\ \A k \in 0..N :
          NoRunReaches(runs, k)
             => split_inner(runs, k) = [runs |-> runs, ret |-> NoIndex]
    /\ (last.op = "split" /\ NoRunReaches(prev, last.a))
          => (last.ret = None /\ runs = prev)

\* A split before the first run of a tree that has runs.
SplitAbsenceWitness ==
    /\ last.op = "split"
    /\ Len(prev) >= 1
    /\ NoRunReaches(prev, last.a)

\* C12: on a from_slice tree every run has left <= right.
RunsWellFormed ==
    Dense => \A i \in 1..Len(runs) : runs[i].left <= runs[i].right

\* C13: on a from_slice tree no well-formed call reaches a usize subtraction
\* that underflows (the outcome recorded as Panic).
NoPanic == Dense => last.ret # Panic

\* C14: on a from_slice tree, nth(l, x) with l < n and l + x >= n returns None.
NthExhausted ==
    (Dense /\ last.op = "nth" /\ last.a + last.b >= n) => last.ret = None

\* C15: add(left, right, delta) on any tree, sparse ones included, leaves the
\* runs completely unchanged when no run has left <= the left argument.
AddNoOp ==
    (last.op = "add" /\ NoRunReaches(prev, last.a)) => runs = prev

\* C16: a merge or an add raises the number of runs by at most 2, an add
\* never lowers it, and a from_slice tree over n elements that received only
\* merge, add and read calls has at most n + 2 * calls runs.
RunCountBound ==
    /\ last.op \in {"merge", "add"} => Len(runs) <= Len(prev) + 2
    /\ last.op = "add" => Len(runs) >= Len(prev)
    /\ (Dense /\ ~split_called) => Len(runs) <= n + 2 * calls

\* An add on a from_slice tree whose two boundary splits both cut a run.
RunCountWitness ==
    Dense /\ last.op = "add" /\ Len(runs) = Len(prev) + 2

\* C17: merge(l, r, v) with l beyond the right of every run (or on the empty
\* tree) adds the run (l, r, v) and leaves every existing run as it was.
AssignBeyond ==
    (last.op = "merge" /\ \A i \in 1..Len(prev) : prev[i].right < last.a)
        => \E j \in 1..Len(runs) :
              /\ runs[j] = Node(last.a, last.b, last.c)
              /\ VecRemove(runs, j - 1) = prev

\* C18: on a from_slice tree, every in-domain nth and pow_sum gives the same
\* result right after split(k) as right before it.
SplitNeutral ==
    (Dense /\ last.op = "split")
        => \A checks \in BOOLEAN : \A left \in 0..(n - 1) :
              /\ \A x \in 0..(n - left - 1) :
                    nth(runs, left, x, checks) = nth(prev, left, x, checks)
              /\ \A right \in left..(n - 1) :
                 \A power \in 0..MaxPower : \A modulo \in 1..MaxMod :
                    pow_sum(runs, left, right, power, modulo, checks)
                       = pow_sum(prev, left, right, power, modulo, checks)

\* C19: a pow_sum call that returns, with modulo >= 1, returns a value in
\* [0, modulo), and returns 0 when no run has left <= its left argument.
PowSumInRange ==
    last.op = "pow_sum"
        => /\ last.ret.tag = "Some"
                 => (0 <= last.ret.val /\ last.ret.val < last.d)
           /\ NoRunReaches(runs, last.a) => last.ret = Some(0)

\* A pow_sum over runs of value 1 whose contributions add up to a multiple of
\* a modulo above 1: the sum came back reduced.
PowSumReducedWitness ==
    /\ last.op = "pow_sum"
    /\ last.c = 1
    /\ last.d > 1
    /\ last.ret = Some(0)
    /\ FindIndex(runs, last.a) # NoIndex
    /\ \A i \in 1..Len(runs) : runs[i].value = 1
====
